---- MODULE Spec2Model ----
(***************************************************************************)
(* Streaming buffer engine of rubberband-web: the C++ kernel               *)
(* RealtimeRubberBand (per-channel ring buffers, push / fetchProcessed /   *)
(* pull, start-delay compensation, reset-and-reprime on a ratio change)    *)
(* and the TypeScript wrapper RealtimeRubberBand that drives it through    *)
(* two heap arrays.  The stretcher is an opaque engine: how many samples   *)
(* it emits per process() call and the start delay it reports are inputs.  *)
(***************************************************************************)
EXTENDS Integers, Sequences, FiniteSets, TLC

\* ---------------------------------------------------------------- bounds
\* channel_count_ of the session under test
NumCh == 2
\* render quantum (128 in the source), scaled
RENDER_QUANTUM_FRAMES == 2
\* buffer_size of the constructor (kBlockSize_ + kReserve_ + 8192), scaled
BufferSize == 3
\* most samples the engine emits for one process() call
MaxEmit == 3
\* largest start delay the engine reports
MaxDelay == 2
\* total number of samples the engine emits in a run
MaxProduced == 4
\* number of engine resets in a run
MaxResets == 1
\* width in bits of size_t (32 in the wasm32 build), scaled
SizeBits == 4
\* most output samples the engine holds back for input it has received
MaxHeld == 1
\* number of render callbacks in a streaming run
MaxCycles == 8
\* number of render callbacks in a run of the processor with its messages
MaxCallbacks == 2

Channels == 1..NumCh

Min(a, b) == IF a <= b THEN a ELSE b

\* content of memory that was allocated and never written
UNINIT == -1

\* the sample with running number id that the engine emits on channel c
Sample(c, id) == id * 10 + c

\* the sample at position i of channel c of an input block
InSample(c, i) == 1000 + 10 * i + c

\* ---------------------------------------------------------------- ratios
\* a ratio is a fraction <<numerator, denominator>>, denominator >= 0;
\* <<1, 0>> is the double +Infinity
One == <<1, 1>>
Two == <<2, 1>>
Zero == <<0, 1>>
MinusOne == <<-1, 1>>

\* the values callers pass to the kernel's ratio setters
RatioArgs == {One, Two, Zero, MinusOne}

\* a wrapper that hands the playback speed to the kernel as it is
Inverse_Identity(r) == r

\* 1 / r as a double: 1 / 0 is +Infinity
Inverse(r) ==
  IF r[1] > 0 THEN <<r[2], r[1]>>
  ELSE IF r[1] = 0 THEN <<1, 0>>
  ELSE <<0 - r[2], 0 - r[1]>>

\* r || 1: 0 is falsy
OrOne(r) == IF r[1] = 0 THEN One ELSE r

\* the setters without their range check
NonPositive_Never(r) == FALSE

\* tempo <= 0, pitch <= 0, scale <= 0
NonPositive(r) == r[1] <= 0

\* ------------------------------------------------------------ ring buffer
\* RubberBand::RingBuffer<float>(n): n + 1 cells, a reader and a writer
\* cursor; data are the unread samples, oldest first.
NewRing(n) == [size |-> n + 1, reader |-> 0, writer |-> 0, data |-> << >>]

GetReadSpace(rb) == (rb.writer + rb.size - rb.reader) % rb.size

GetWriteSpace(rb) == (rb.reader + rb.size - rb.writer - 1) % rb.size

\* a write that makes room for the newest samples by dropping the oldest
RingWrite_DropOldest(rb, source, n) ==
  LET all == rb.data \o SubSeq(source, 1, n)
      over == IF Len(all) > rb.size - 1 THEN Len(all) - (rb.size - 1) ELSE 0
  IN [rb EXCEPT !.data = SubSeq(all, over + 1, Len(all)),
                !.writer = (rb.writer + n) % rb.size,
                !.reader = (rb.reader + over) % rb.size]

\* write(source, n): appends the first min(n, write space) samples of source
RingWrite(rb, source, n) ==
  LET m == Min(n, GetWriteSpace(rb))
  IN [rb EXCEPT !.data = rb.data \o SubSeq(source, 1, m),
                !.writer = (rb.writer + m) % rb.size]

\* read(destination, n): hands out the min(n, read space) oldest samples
RingReadData(rb, n) == SubSeq(rb.data, 1, Min(n, GetReadSpace(rb)))

RingRead(rb, n) ==
  LET m == Min(n, GetReadSpace(rb))
  IN [rb EXCEPT !.data = SubSeq(rb.data, m + 1, Len(rb.data)),
                !.reader = (rb.reader + m) % rb.size]

\* ---------------------------------------------------------------- engine
\* RubberBandStretcher as the kernel uses it.  avail samples are ready, the
\* oldest of them has running number next.
NewStretcher ==
  [timeRatio |-> One, pitchScale |-> One, formantScale |-> One,
   maxProcessSize |-> 0, avail |-> 0, next |-> 1]

\* process(input, n, false): emit more samples become available
StretcherProcess(e, emit) == [e EXCEPT !.avail = e.avail + emit]

\* retrieve(scratch, n): the number of samples handed out
StretcherRetrieveCount(e, n) == Min(n, e.avail)

\* retrieve(scratch, n): what it writes to the scratch array of channel c
StretcherRetrieveData(e, n, c) ==
  [i \in 1..StretcherRetrieveCount(e, n) |-> Sample(c, e.next + i - 1)]

StretcherRetrieve(e, n) ==
  LET m == StretcherRetrieveCount(e, n)
  IN [e EXCEPT !.avail = e.avail - m, !.next = e.next + m]

\* reset(): pending output is gone, the block size configuration is cleared
StretcherReset(e) ==
  [e EXCEPT !.avail = 0, !.next = e.next + e.avail, !.maxProcessSize = 0]

\* ---------------------------------------------------------------- kernel
\* a constructor that allocates one cell more per ring buffer
Kernel_LargerRings(d) ==
  [stretcher_ |-> NewStretcher,
   output_buffer_ |-> [c \in Channels |-> NewRing(BufferSize + 1)],
   start_delay_samples_ |-> d,
   max_process_size_ |-> 0,
   channel_count_ |-> NumCh]

\* RealtimeRubberBand(sampleRate, channel_count, high_quality): the state
\* after the constructor, d being the start delay the new engine reports.
\* (start_pad_samples_ is written by updateRatio and read nowhere; the
\* scratch arrays are overwritten before every use.)
Kernel(d) ==
  [stretcher_ |-> NewStretcher,
   output_buffer_ |-> [c \in Channels |-> NewRing(BufferSize)],
   start_delay_samples_ |-> d,
   max_process_size_ |-> 0,
   channel_count_ |-> NumCh]

\* a value converted to size_t, as the constructor's parameters are
ToSizeT(x) == x % (2 ^ SizeBits)

\* RealtimeRubberBand(size_t sampleRate, size_t channel_count, high_quality)
\* called with the given values: the range checks of lines 21-26, then fresh,
\* the state lines 27-37 build.  created tells whether the engine and the
\* ring buffers were allocated.
RealtimeRubberBand(sampleRate, channel_count, fresh) ==
  IF ToSizeT(sampleRate) <= 0 \/ ToSizeT(channel_count) <= 0
  THEN [err |-> "range_error", created |-> FALSE, k |-> fresh]
  ELSE [err |-> "none", created |-> TRUE,
        k |-> [fresh EXCEPT !.channel_count_ = ToSizeT(channel_count)]]

\* what an operation reports besides the new kernel state k:
\*   calls    the engine calls it made, in order
\*   err      "none" or the exception it threw
\*   flagged  it printed BUFFER OVERRUN
\*   lost     samples were retrieved that a ring buffer had no room for
\*   kept     per channel, the samples retrieved after start-delay discarding
\*   input    per channel, the samples handed to process()
Outcome(k, calls, err, flagged, lost, kept) ==
  [k |-> k, calls |-> calls, err |-> err, flagged |-> flagged, lost |-> lost,
   kept |-> kept, input |-> [c \in Channels |-> << >>]]

NoSamples == [c \in Channels |-> << >>]

\* stretcher_->retrieve(scratch_, n), the scratch content aside
Retrieve(k, n) == [k EXCEPT !.stretcher_ = StretcherRetrieve(k.stretcher_, n)]

\* output_buffer_[0]->getWriteSpace() <= available
OverrunTest(space, available) == space <= available

\* a write loop that stops after the first channel
WriteChannels_FirstOnly(rings, scratch, actual) ==
  [c \in Channels |-> IF c = 1 THEN RingWrite(rings[c], scratch[c], actual) ELSE rings[c]]

\* for each channel: output_buffer_[channel]->write(scratch_[channel], actual)
WriteChannels(rings, scratch, actual) ==
  [c \in DOMAIN rings |-> RingWrite(rings[c], scratch[c], actual)]

\* a fetch that retrieves only what the ring buffers have room for
FetchWrite_OnlyWhatFits(k, available, calls) ==
  LET space == GetWriteSpace(k.output_buffer_[1])
      n == Min(available, space)
      actual == StretcherRetrieveCount(k.stretcher_, n)
      scratch == [c \in Channels |-> StretcherRetrieveData(k.stretcher_, n, c)]
      k1 == Retrieve(k, n)
      k2 == [k1 EXCEPT !.output_buffer_ =
                WriteChannels(k1.output_buffer_, scratch, actual)]
  IN Outcome(k2, calls \o <<"retrieve">>, "none",
             OverrunTest(space, available), FALSE, scratch)

\* a fetch that throws on an overrun instead of writing what fits
FetchWrite_Throws(k, available, calls) ==
  LET space == GetWriteSpace(k.output_buffer_[1])
      actual == StretcherRetrieveCount(k.stretcher_, available)
      scratch == [c \in Channels |-> StretcherRetrieveData(k.stretcher_, available, c)]
      k1 == Retrieve(k, available)
      k2 == [k1 EXCEPT !.output_buffer_ =
                WriteChannels(k1.output_buffer_, scratch, actual)]
  IN IF OverrunTest(space, available)
     THEN Outcome(k, calls, "overrun", TRUE, FALSE, NoSamples)
     ELSE Outcome(k2, calls \o <<"retrieve">>, "none", FALSE, FALSE, scratch)

\* lines 153-160 of fetchProcessed: overrun test, retrieve, write
FetchWrite(k, available, calls) ==
  LET space == GetWriteSpace(k.output_buffer_[1])
      actual == StretcherRetrieveCount(k.stretcher_, available)
      scratch == [c \in Channels |-> StretcherRetrieveData(k.stretcher_, available, c)]
      k1 == Retrieve(k, available)
      k2 == [k1 EXCEPT !.output_buffer_ =
                WriteChannels(k1.output_buffer_, scratch, actual)]
  IN Outcome(k2, calls \o <<"retrieve">>, "none",
             OverrunTest(space, available),
             \E c \in DOMAIN k.output_buffer_ :
               GetWriteSpace(k.output_buffer_[c]) < actual,
             scratch)

\* a fetch without start-delay compensation
fetchProcessed_NoDiscard(k) ==
  IF k.stretcher_.avail > 0
  THEN FetchWrite(k, k.stretcher_.avail, <<"available">>)
  ELSE Outcome(k, <<"available">>, "none", FALSE, FALSE, NoSamples)

\* a fetch that discards what is available but leaves the start delay as it
\* is when less than the start delay is available
fetchProcessed_KeepsDelay(k) ==
  LET available == k.stretcher_.avail
      delay == k.start_delay_samples_
  IN IF available > 0
     THEN IF delay > 0
          THEN IF available >= delay
               THEN FetchWrite([Retrieve(k, delay) EXCEPT !.start_delay_samples_ = 0],
                               available - delay, <<"available", "retrieve">>)
               ELSE Outcome(Retrieve(k, available),
                            <<"available", "retrieve">>, "none", FALSE, FALSE, NoSamples)
          ELSE FetchWrite(k, available, <<"available">>)
     ELSE Outcome(k, <<"available">>, "none", FALSE, FALSE, NoSamples)

\* fetchProcessed(): discard what is left of the start delay, then retrieve
\* the rest and write it to the ring buffers
fetchProcessed(k) ==
  LET available == k.stretcher_.avail
      delay == k.start_delay_samples_
  IN IF available > 0
     THEN IF delay > 0
          THEN IF available >= delay
               THEN FetchWrite([Retrieve(k, delay) EXCEPT !.start_delay_samples_ = 0],
                               available - delay, <<"available", "retrieve">>)
               ELSE Outcome([Retrieve(k, available) EXCEPT
                               !.start_delay_samples_ = delay - available],
                            <<"available", "retrieve">>, "none", FALSE, FALSE, NoSamples)
          ELSE FetchWrite(k, available, <<"available">>)
     ELSE Outcome(k, <<"available">>, "none", FALSE, FALSE, NoSamples)

\* the sizes fetchProcessed passes to stretcher_->retrieve(scratch_, n), in
\* order: the start-delay discard of line 143 or 147, the main retrieve of
\* line 157
RetrieveRequests(k) ==
  LET available == k.stretcher_.avail
      delay == k.start_delay_samples_
  IN IF available > 0
     THEN IF delay > 0
          THEN IF available >= delay
               THEN <<delay, available - delay>>
               ELSE <<available>>
          ELSE <<available>>
     ELSE << >>

\* a setter that keeps the start delay that was left
updateRatio_Stale(k, d) == k

\* updateRatio(): d is what getStartDelay() reports now
updateRatio(k, d) == [k EXCEPT !.start_delay_samples_ = d]

\* push(input_ptr, sample_size): heap is the memory at input_ptr, emit the
\* number of samples the engine makes available for this block
push(k, heap, sample_size, emit) ==
  LET input == [c \in 1..k.channel_count_ |->
                  [i \in 1..sample_size |-> heap[(c - 1) * sample_size + i]]]
      k1 == [k EXCEPT !.stretcher_ = StretcherProcess(k.stretcher_, emit)]
      f == fetchProcessed(k1)
  IN [f EXCEPT !.calls = <<"process">> \o f.calls, !.input = input]

\* a pull that reads all there is, whatever was asked for
ReadCount_All(available, sample_size) == available

\* std::min<size_t>(available, sample_size)
ReadCount(available, sample_size) == Min(available, sample_size)

\* pull(output_ptr, sample_size), channels c..NumCh of the loop: heap is the
\* memory at output_ptr, read collects what each ring buffer handed out
RECURSIVE PullFrom(_, _, _, _, _)
PullFrom(c, k, heap, sample_size, read) ==
  IF c > k.channel_count_
  THEN [k |-> k, heap |-> heap, read |-> read, underrun |-> FALSE]
  ELSE LET available == GetReadSpace(k.output_buffer_[c])
           n == ReadCount(available, sample_size)
           data == RingReadData(k.output_buffer_[c], n)
       IN IF available = 0
          THEN [k |-> k, heap |-> heap, read |-> read, underrun |-> TRUE]
          ELSE PullFrom(c + 1,
                 [k EXCEPT !.output_buffer_[c] = RingRead(@, n)],
                 [a \in DOMAIN heap |->
                    IF a - (c - 1) * sample_size \in 1..Len(data)
                    THEN data[a - (c - 1) * sample_size] ELSE heap[a]],
                 sample_size, [read EXCEPT ![c] = data])

pull(k, heap, sample_size) == PullFrom(1, k, heap, sample_size, NoSamples)

\* getSamplesAvailable()
getSamplesAvailable(k) == GetReadSpace(k.output_buffer_[1])

\* setMaxProcessSize(size)
setMaxProcessSize(k, size) ==
  [k EXCEPT !.max_process_size_ = size, !.stretcher_.maxProcessSize = size]

\* setters that reset without comparing
Differs_Always(current, value) == TRUE

\* stretcher_->getTimeRatio() != tempo (and the same test of the other setters)
Differs(current, value) == current # value

\* a setter that forgets the block size after the reset
ReapplyBlockSize_Never(k) == [k |-> k, calls |-> << >>]

\* the block size calls between reset() and the new ratio
ReapplyBlockSize(k) ==
  IF k.max_process_size_ > 0
  THEN [k |-> [k EXCEPT !.stretcher_.maxProcessSize = k.max_process_size_],
        calls |-> <<"setMaxProcessSize">>]
  ELSE [k |-> k, calls |-> << >>]

\* a setter whose reset empties the ring buffers as well
Reprime_ClearsRings(k, which, value, d) ==
  LET f == fetchProcessed(k)
      k1 == [f.k EXCEPT !.stretcher_ = StretcherReset(@),
                        !.output_buffer_ =
                           [c \in Channels |-> NewRing(k.output_buffer_[c].size - 1)]]
      r == ReapplyBlockSize(k1)
      k2 == [r.k EXCEPT !.stretcher_[which] = value]
  IN [f EXCEPT !.k = updateRatio(k2, d),
               !.calls = f.calls \o <<"reset">> \o r.calls
                         \o <<which, "getPreferredStartPad", "getStartDelay">>]

\* the body of a setter whose value differs: fetch, reset, re-apply the block
\* size, set the ratio, updateRatio.  which is the engine parameter set, d
\* the start delay the engine reports once it is set
Reprime(k, which, value, d) ==
  LET f == fetchProcessed(k)
      k1 == [f.k EXCEPT !.stretcher_ = StretcherReset(@)]
      r == ReapplyBlockSize(k1)
      k2 == [r.k EXCEPT !.stretcher_[which] = value]
  IN [f EXCEPT !.k = updateRatio(k2, d),
               !.calls = f.calls \o <<"reset">> \o r.calls
                         \o <<which, "getPreferredStartPad", "getStartDelay">>]

Rejected(k) == Outcome(k, << >>, "range_error", FALSE, FALSE, NoSamples)

Untouched(k) == Outcome(k, << >>, "none", FALSE, FALSE, NoSamples)

setTempo(k, tempo, d) ==
  IF NonPositive(tempo) THEN Rejected(k)
  ELSE IF Differs(k.stretcher_.timeRatio, tempo)
       THEN Reprime(k, "timeRatio", tempo, d)
       ELSE Untouched(k)

setPitch(k, pitch, d) ==
  IF NonPositive(pitch) THEN Rejected(k)
  ELSE IF Differs(k.stretcher_.pitchScale, pitch)
       THEN Reprime(k, "pitchScale", pitch, d)
       ELSE Untouched(k)

setFormantScale(k, scale, d) ==
  IF NonPositive(scale) THEN Rejected(k)
  ELSE IF Differs(k.stretcher_.formantScale, scale)
       THEN Reprime(k, "formantScale", scale, d)
       ELSE Untouched(k)

\* --------------------------------------------------------------- wrapper
\* HeapArray(module, RENDER_QUANTUM_FRAMES, channelCount): one region of
\* RENDER_QUANTUM_FRAMES cells per channel, freshly allocated
HeapArrayOf(channelCount) ==
  [a \in 1..(channelCount * RENDER_QUANTUM_FRAMES) |-> UNINIT]

\* the heap array of a session of NumCh channels
HeapArray == HeapArrayOf(NumCh)

\* getChannelArray(channel) starts at this cell of the heap array
ChannelStart(c) == (c - 1) * RENDER_QUANTUM_FRAMES

\* getChannelArray(channel).set(data) for every channel
SetChannels(heap, data) ==
  [a \in DOMAIN heap |->
     IF \E c \in DOMAIN data : a - ChannelStart(c) \in 1..Len(data[c])
     THEN LET c == CHOOSE c \in DOMAIN data : a - ChannelStart(c) \in 1..Len(data[c])
          IN data[c][a - ChannelStart(c)]
     ELSE heap[a]]

\* the wrapper after its constructor ran without options
Wrapper ==
  [_inputArray |-> HeapArray, _outputArray |-> HeapArray,
   _tempo |-> One, _pitch |-> One, _highQuality |-> FALSE,
   _channelCount |-> NumCh]

\* the kernel the wrapper's constructor creates and configures; d is the start
\* delay the new engine reports
WrapperKernel(d) == setMaxProcessSize(Kernel(d), RENDER_QUANTUM_FRAMES)

\* the options of a caller that passes none
NoOptions == [highQuality |-> FALSE, pitch |-> Zero, tempo |-> Zero]

\* new RealtimeRubberBand(module, sampleRate, channelCount, options): the
\* kernel's constructor (fresh is the state its lines 27-37 build),
\* setMaxProcessSize, the two heap arrays, the stored pitch and tempo, and the
\* initial tempo, inverted, if one is given and is not 1 (d is the start
\* delay the engine reports once it is set).  An exception of the kernel
\* leaves the wrapper's constructor.
WrapperConstruct(sampleRate, channelCount, options, fresh, d) ==
  LET c == RealtimeRubberBand(sampleRate, channelCount, fresh)
      k1 == setMaxProcessSize(c.k, RENDER_QUANTUM_FRAMES)
      w1 == [Wrapper EXCEPT !._inputArray = HeapArrayOf(channelCount),
                            !._outputArray = HeapArrayOf(channelCount),
                            !._highQuality = options.highQuality,
                            !._channelCount = channelCount,
                            !._pitch = OrOne(options.pitch),
                            !._tempo = OrOne(options.tempo)]
      t == IF options.tempo[1] # 0 /\ options.tempo # One
           THEN setTempo(k1, Inverse(options.tempo), d)
           ELSE Untouched(k1)
  IN IF c.err # "none"
     THEN [err |-> c.err, created |-> c.created, k |-> c.k, w |-> Wrapper,
           calls |-> << >>]
     ELSE [err |-> t.err, created |-> c.created, k |-> t.k, w |-> w1,
           calls |-> t.calls]

\* numSamples || RENDER_QUANTUM_FRAMES (0 stands for undefined, too)
OrQuantum(numSamples) ==
  IF numSamples = 0 THEN RENDER_QUANTUM_FRAMES ELSE numSamples

\* push(channels, numSamples)
WrapperPush(wr, kn, channels, numSamples, emit) ==
  LET heap == SetChannels(wr._inputArray, channels)
  IN [w |-> [wr EXCEPT !._inputArray = heap],
      o |-> push(kn, heap, OrQuantum(numSamples), emit)]

\* channels[channel].slice(start, end): end is clamped to the length
Slice(channel, start, end) == SubSeq(channel, start + 1, Min(end, Len(channel)))

\* pushSlice(channels, start, end)
WrapperPushSlice(wr, kn, channels, start, end, emit) ==
  LET len == end - start
      heap == SetChannels(wr._inputArray,
                [c \in Channels |-> Slice(channels[c], start, end)])
  IN IF len > RENDER_QUANTUM_FRAMES
     THEN [w |-> wr, o |-> [Untouched(kn) EXCEPT !.err = "Error"]]
     ELSE [w |-> [wr EXCEPT !._inputArray = heap],
           o |-> push(kn, heap, len, emit)]

\* a pull that waits for a full block
ToPull_FullOnly(available, outputLength) ==
  IF available >= outputLength THEN outputLength ELSE 0

\* Math.max where the code has Math.min
ToPull_Max(available, outputLength) ==
  IF available >= outputLength THEN available ELSE outputLength

\* a pull that asks the kernel for a full block whatever is available
ToPull_Length(available, outputLength) == outputLength

\* Math.min(available, outputLength)
ToPull(available, outputLength) == Min(available, outputLength)

\* a copy that pads the rest of the block with zeros
CopyOut_ZeroFill(channels, heap, toPull) ==
  [c \in Channels |-> [i \in 1..Len(channels[c]) |->
     IF i <= toPull THEN heap[(c - 1) * RENDER_QUANTUM_FRAMES + i] ELSE 0]]

\* channels[channel].set(getChannelArray(channel).subarray(0, toPull))
CopyOut(channels, heap, toPull) ==
  [c \in DOMAIN channels |-> [i \in 1..Len(channels[c]) |->
     IF i <= toPull THEN heap[ChannelStart(c) + i] ELSE channels[c][i]]]

\* pull(channels): the block after the call is channels, which is also what
\* the call returns
WrapperPull(wr, kn, channels) ==
  LET available == getSamplesAvailable(kn)
      outputLength == Len(channels[1])
      toPull == ToPull(available, outputLength)
      r == pull(kn, wr._outputArray, toPull)
  IN IF toPull > 0
     THEN [w |-> [wr EXCEPT !._outputArray = r.heap], k |-> r.k,
           channels |-> CopyOut(channels, r.heap, toPull),
           toPull |-> toPull, read |-> r.read, ret |-> "channels"]
     ELSE [w |-> wr, k |-> kn, channels |-> channels,
           toPull |-> toPull, read |-> NoSamples, ret |-> "channels"]

\* ----------------------------------------------------------- state machine
\* k     the kernel (engine, ring buffers, scratch, start delay, block size)
\* w     the wrapper (heap arrays, stored tempo and pitch)
\* hist  history: whether samples were ever lost to a full ring buffer; the
\*       number of engine resets
\* last  the last operation: its name and arguments, what it reported, for
\*       a pull the block before and after, for a setter the start delay
\*       the engine reports once the value is set, for a push of a burst
\*       run the sizes its fetch asked the engine's retrieve for, and for a
\*       render callback whether it replaced the session and the start delay
\*       of the session it created
\* p     the worklet processor that owns the session (module handle, session
\*       created or not, running flag, requested pitch, tempo and quality)
VARIABLES k, w, hist, last, p

vars == <<k, w, hist, last, p>>

\* RealtimePitchShiftProcessor after its constructor: no module, no session
\* (_module: the module handle is set; _api: a session exists, which is then
\* k and w; onmessage: the port still has its message handler; runtime: the
\* module's initialization callback has run; task: the handler the rendering
\* thread is running, pc: the step of it that comes next)
Processor ==
  [_module |-> FALSE, _api |-> FALSE, running |-> TRUE,
   pitch |-> One, tempo |-> One, highQuality |-> FALSE,
   onmessage |-> TRUE, runtime |-> FALSE,
   task |-> "idle", pc |-> "none"]

\* the input blocks callers push: RENDER_QUANTUM_FRAMES samples per channel
InBlockOf(n) == [c \in 1..n |-> [i \in 1..RENDER_QUANTUM_FRAMES |-> InSample(c, i)]]

InBlock == InBlockOf(NumCh)

\* an output block of len samples per channel as the caller hands it to pull
OutBlockOf(n, len) == [c \in 1..n |-> [i \in 1..len |-> 0 - InSample(c, i)]]

OutBlock(len) == OutBlockOf(NumCh, len)

\* the number of samples the engine has emitted so far
Produced(kn) == kn.stretcher_.next - 1 + kn.stretcher_.avail

\* the emit counts the engine may choose for the next process() call
Emits(kn) ==
  {e \in 0..MaxEmit : /\ Produced(kn) + e <= MaxProduced
                      /\ kn.stretcher_.avail + e <= BufferSize}

Count(calls, name) == Cardinality({i \in DOMAIN calls : calls[i] = name})

NoLast ==
  [name |-> "init", ratio |-> One, n |-> 0, err |-> "none", calls |-> << >>,
   flagged |-> FALSE, lost |-> FALSE, kept |-> NoSamples, fill |-> 0,
   toPull |-> 0, block |-> NoSamples, out |-> NoSamples, read |-> NoSamples,
   ret |-> "void", input |-> NoSamples,
   sampleRate |-> 0, channelCount |-> 0, created |-> FALSE,
   pushed |-> FALSE, pulled |-> FALSE, nIn |-> 0, nOut |-> 0,
   delay |-> 0, requests |-> << >>, start |-> 0, replaced |-> FALSE]

\* last after an operation with outcome o
LastOf(name, ratio, n, o) ==
  [NoLast EXCEPT !.name = name, !.ratio = ratio, !.n = n, !.err = o.err,
                 !.calls = o.calls, !.flagged = o.flagged, !.lost = o.lost,
                 !.kept = o.kept, !.input = o.input]

\* hist after an operation with outcome o
HistOf(o) ==
  [hist EXCEPT !.overrun = @ \/ o.lost,
               !.resets = @ + Count(o.calls, "reset")]

\* the history of a new session: owed is the output the engine still holds
\* back for the input it received, in units of 1/denominator of the time
\* ratio; cycles counts the render callbacks; steady says that every render
\* callback so far pushed and pulled and no parameter changed since the
\* session was created
NoHist ==
  [overrun |-> FALSE, resets |-> 0, owed |-> 0, cycles |-> 0, steady |-> TRUE]

Init ==
  /\ \E d \in 0..MaxDelay : k = WrapperKernel(d)
  /\ w = Wrapper
  /\ hist = NoHist
  /\ last = NoLast
  /\ p = Processor

Push ==
  \E numSamples \in 0..RENDER_QUANTUM_FRAMES : \E emit \in Emits(k) :
    LET r == WrapperPush(w, k, InBlock, numSamples, emit)
    IN /\ k' = r.o.k
       /\ w' = r.w
       /\ hist' = HistOf(r.o)
       /\ last' = LastOf("push", One, OrQuantum(numSamples), r.o)
       /\ UNCHANGED p

Pull ==
  \E len \in 1..RENDER_QUANTUM_FRAMES :
    LET r == WrapperPull(w, k, OutBlock(len))
    IN /\ k' = r.k
       /\ w' = r.w
       /\ hist' = hist
       /\ last' = [NoLast EXCEPT !.name = "pull", !.n = len,
                     !.fill = getSamplesAvailable(k), !.toPull = r.toPull,
                     !.block = OutBlock(len), !.out = r.channels,
                     !.read = r.read, !.ret = r.ret]
       /\ UNCHANGED p

\* the kernel's pull called by a caller that reads the heap as the kernel
\* lays it out
KernelPull ==
  \E n \in 1..RENDER_QUANTUM_FRAMES :
    LET o == pull(k, w._outputArray, n)
    IN /\ k' = o.k
       /\ w' = [w EXCEPT !._outputArray = o.heap]
       /\ hist' = hist
       /\ last' = [NoLast EXCEPT !.name = "kernel.pull", !.n = n,
                     !.fill = getSamplesAvailable(k), !.read = o.read,
                     !.toPull = Len(o.read[1])]
       /\ UNCHANGED p

Setter(name, o, value, d) ==
  /\ hist.resets + Count(o.calls, "reset") <= MaxResets
  /\ k' = o.k
  /\ hist' = HistOf(o)
  /\ last' = [LastOf(name, value, 0, o) EXCEPT !.delay = d]
  /\ UNCHANGED <<w, p>>

\* the start delays the engine may report after a call that sets value
Delays(current, value) ==
  IF value[1] > 0 /\ value # current THEN 0..MaxDelay ELSE {0}

SetTempo ==
  \E tempo \in RatioArgs : \E d \in Delays(k.stretcher_.timeRatio, tempo) :
    Setter("setTempo", setTempo(k, tempo, d), tempo, d)

SetPitch ==
  \E pitch \in RatioArgs : \E d \in Delays(k.stretcher_.pitchScale, pitch) :
    Setter("setPitch", setPitch(k, pitch, d), pitch, d)

SetFormantScale ==
  \E scale \in RatioArgs : \E d \in Delays(k.stretcher_.formantScale, scale) :
    Setter("setFormantScale", setFormantScale(k, scale, d), scale, d)

SetMaxProcessSize ==
  \E size \in {0, RENDER_QUANTUM_FRAMES} :
    /\ k' = setMaxProcessSize(k, size)
    /\ last' = [NoLast EXCEPT !.name = "setMaxProcessSize", !.n = size,
                              !.calls = <<"setMaxProcessSize">>]
    /\ UNCHANGED <<w, hist, p>>

\* the sample rates and channel counts callers construct a session with
SampleRates == {-1, 0, 1}

ChannelCounts == {0, NumCh}

\* the start delays the engine of a new session may report
FreshDelays(sampleRate, channelCount) ==
  IF RealtimeRubberBand(sampleRate, channelCount, Kernel(0)).created
  THEN 0..MaxDelay ELSE {0}

\* new RealtimeRubberBand(module, sampleRate, channelCount): on success the
\* new session replaces the one under test, on an exception that one stays
Construct ==
  \E sampleRate \in SampleRates : \E channelCount \in ChannelCounts :
    \E d \in FreshDelays(sampleRate, channelCount) :
      LET c == WrapperConstruct(sampleRate, channelCount, NoOptions, Kernel(d), 0)
      IN /\ k' = IF c.err = "none" THEN c.k ELSE k
         /\ w' = IF c.err = "none" THEN c.w ELSE w
         /\ hist' = IF c.err = "none" THEN NoHist ELSE hist
         /\ last' = [NoLast EXCEPT !.name = "construct", !.err = c.err,
                       !.sampleRate = sampleRate, !.channelCount = channelCount,
                       !.created = c.created]
         /\ UNCHANGED p

Next ==
  \/ Push
  \/ Pull
  \/ KernelPull
  \/ SetTempo
  \/ SetPitch
  \/ SetFormantScale
  \/ SetMaxProcessSize
  \/ Construct

Spec == Init /\ [][Next]_vars

\* ------------------------------------------------------------- processor
\* The worklet processor driving a session from render callbacks and control
\* messages.  Here the engine emits in step with its time ratio: for n input
\* samples at ratio a/b it owes n * a / b output samples, and it holds back at
\* most MaxHeld of the samples it owes.

\* the ring buffer capacity of the processor's sessions: the least capacity
\* that holds the largest output of one block and one block of input
CycleBufferSize == MaxEmit + RENDER_QUANTUM_FRAMES

\* the kernel state the constructor builds for such a session
CycleKernelOf(channel_count, d) ==
  [Kernel(d) EXCEPT !.output_buffer_ =
     [c \in 1..channel_count |-> NewRing(CycleBufferSize)]]

\* the one for NumCh channels
CycleKernel(d) == CycleKernelOf(NumCh, d)

\* the time ratios the engine is run at
CycleRatios == {<<1, 4>>, <<4, 5>>, One, <<5, 4>>}

\* the payloads of 'tempo' messages: the playback speeds for those ratios
Tempos == {Inverse(r) : r \in CycleRatios}

\* the payloads of 'pitch' messages
Pitches == {One, Two}

\* what the engine owes after n more input samples and emit emitted ones
Owed(ratio, owed, n, emit) == owed + n * ratio[1] - emit * ratio[2]

\* the numbers of samples the engine may emit for a block of n samples
CycleEmits(ratio, owed, n) ==
  {e \in 0..MaxEmit : /\ Owed(ratio, owed, n, e) >= 0
                       /\ Owed(ratio, owed, n, e) <= MaxHeld * ratio[2]}

\* a getApi that creates the session whether or not the module is there
getApi_NoModuleCheck(pr, kn, wr, channelCount, fresh, d) ==
  IF \/ ~pr._api
     \/ wr._channelCount # channelCount
     \/ wr._highQuality # pr.highQuality
  THEN LET c == WrapperConstruct(1, channelCount,
                  [highQuality |-> pr.highQuality, pitch |-> pr.pitch,
                   tempo |-> pr.tempo], fresh, d)
       IN IF c.err = "none"
          THEN [p |-> [pr EXCEPT !._api = TRUE], k |-> c.k, w |-> c.w,
                created |-> TRUE, err |-> "none"]
          ELSE [p |-> pr, k |-> kn, w |-> wr, created |-> FALSE, err |-> c.err]
  ELSE [p |-> pr, k |-> kn, w |-> wr, created |-> FALSE, err |-> "none"]

\* a getApi that keeps the session it has, whatever the callback asks for
getApi_SameSession(pr, kn, wr, channelCount, fresh, d) ==
  IF pr._module /\ ~pr._api
  THEN LET c == WrapperConstruct(1, channelCount,
                  [highQuality |-> pr.highQuality, pitch |-> pr.pitch,
                   tempo |-> pr.tempo], fresh, d)
       IN IF c.err = "none"
          THEN [p |-> [pr EXCEPT !._api = TRUE], k |-> c.k, w |-> c.w,
                created |-> TRUE, err |-> "none"]
          ELSE [p |-> pr, k |-> kn, w |-> wr, created |-> FALSE, err |-> c.err]
  ELSE [p |-> pr, k |-> kn, w |-> wr, created |-> FALSE, err |-> "none"]

\* getApi(channelCount): the session to use, created first if the module is
\* there and there is no session or it has another channel count or quality
getApi(pr, kn, wr, channelCount, fresh, d) ==
  IF pr._module /\ (\/ ~pr._api
                    \/ wr._channelCount # channelCount
                    \/ wr._highQuality # pr.highQuality)
  THEN LET c == WrapperConstruct(1, channelCount,
                  [highQuality |-> pr.highQuality, pitch |-> pr.pitch,
                   tempo |-> pr.tempo], fresh, d)
       IN IF c.err = "none"
          THEN [p |-> [pr EXCEPT !._api = TRUE], k |-> c.k, w |-> c.w,
                created |-> TRUE, err |-> "none"]
          ELSE [p |-> pr, k |-> kn, w |-> wr, created |-> FALSE, err |-> c.err]
  ELSE [p |-> pr, k |-> kn, w |-> wr, created |-> FALSE, err |-> "none"]

\* the start delays an engine may report after a tempo was set at construction
TempoDelays(pr) ==
  IF pr.tempo[1] # 0 /\ pr.tempo # One THEN 0..MaxDelay ELSE {0}

\* onRuntimeInitialized: the handle is kept if the required exports are there
RuntimeInitialized ==
  /\ ~p.runtime
  /\ \E hasRequiredExports \in BOOLEAN :
       p' = [p EXCEPT !.runtime = TRUE, !._module = hasRequiredExports]
  /\ last' = [NoLast EXCEPT !.name = "onRuntimeInitialized"]
  /\ UNCHANGED <<k, w, hist>>

\* hist after a control message whose setter had outcome o
MessageHist(o) ==
  LET resets == Count(o.calls, "reset")
  IN [hist EXCEPT !.overrun = @ \/ o.lost,
                  !.resets = @ + resets,
                  !.owed = IF resets > 0 THEN 0 ELSE @,
                  !.steady = @ /\ resets = 0]

\* port.onmessage, event 'tempo': store it, and with a session set timeRatio,
\* which stores it and passes its inverse to the kernel
TempoHandler(payload) ==
  \E d \in (IF p._api THEN Delays(k.stretcher_.timeRatio, Inverse(payload)) ELSE {0}) :
    LET o == IF p._api THEN setTempo(k, Inverse(payload), d) ELSE Untouched(k)
    IN /\ hist.resets + Count(o.calls, "reset") <= MaxResets
       /\ p' = [p EXCEPT !.tempo = payload]
       /\ w' = IF p._api THEN [w EXCEPT !._tempo = payload] ELSE w
       /\ k' = o.k
       /\ hist' = MessageHist(o)
       /\ last' = [LastOf("tempo", payload, 0, o) EXCEPT !.delay = d]

TempoMessage == p.onmessage /\ \E payload \in Tempos : TempoHandler(payload)

\* port.onmessage, event 'pitch': store it, and with a session set pitchScale
PitchHandler(payload) ==
  \E d \in (IF p._api THEN Delays(k.stretcher_.pitchScale, payload) ELSE {0}) :
    LET o == IF p._api THEN setPitch(k, payload, d) ELSE Untouched(k)
    IN /\ hist.resets + Count(o.calls, "reset") <= MaxResets
       /\ p' = [p EXCEPT !.pitch = payload]
       /\ w' = IF p._api THEN [w EXCEPT !._pitch = payload] ELSE w
       /\ k' = o.k
       /\ hist' = MessageHist(o)
       /\ last' = [LastOf("pitch", payload, 0, o) EXCEPT !.delay = d]

PitchMessage == p.onmessage /\ \E payload \in Pitches : PitchHandler(payload)

\* port.onmessage, event 'quality'
QualityMessage ==
  /\ p.onmessage
  /\ \E payload \in BOOLEAN :
       /\ p' = [p EXCEPT !.highQuality = payload]
       /\ last' = [NoLast EXCEPT !.name = "quality"]
  /\ UNCHANGED <<k, w, hist>>

\* port.onmessage, event 'close': close()
CloseMessage ==
  /\ p.onmessage
  /\ p' = [p EXCEPT !.onmessage = FALSE, !.running = FALSE]
  /\ last' = [NoLast EXCEPT !.name = "close"]
  /\ UNCHANGED <<k, w, hist>>

\* process(inputs, outputs): nIn and nOut are the channel counts of inputs[0]
\* and outputs[0], every channel a block of RENDER_QUANTUM_FRAMES samples;
\* limit bounds the number of render callbacks of the run, counts are the
\* channel counts the host renders with
RenderWith(limit, counts) ==
  /\ hist.cycles < limit
  /\ \E n \in counts : \E nIn \in {0, n} : \E nOut \in {0, n} :
     \E d0 \in 0..MaxDelay : \E d \in TempoDelays(p) :
     \E numChannels \in {IF nIn # 0 THEN nIn ELSE nOut} :
     \E a \in {IF numChannels > 0
                THEN getApi(p, k, w, numChannels, CycleKernelOf(numChannels, d0), d)
                ELSE [p |-> p, k |-> k, w |-> w, created |-> FALSE, err |-> "none"]} :
     \E api \in {numChannels > 0 /\ a.p._api /\ a.err = "none"} :
     \E h0 \in {IF a.created THEN [NoHist EXCEPT !.cycles = hist.cycles] ELSE hist} :
     \E ratio \in {a.k.stretcher_.timeRatio} :
       /\ (a.created \/ d0 = 0)
       /\ ((a.created /\ ratio # One) \/ d = 0)
       /\ \E emit \in (IF api /\ nIn > 0
                        THEN CycleEmits(ratio, h0.owed, RENDER_QUANTUM_FRAMES)
                        ELSE {0}) :
          \E pu \in {IF api /\ nIn > 0
                      THEN WrapperPush(a.w, a.k, InBlockOf(nIn), RENDER_QUANTUM_FRAMES, emit)
                      ELSE [w |-> a.w, o |-> Untouched(a.k)]} :
          \E pl \in {IF api /\ nOut > 0
                      THEN WrapperPull(pu.w, pu.o.k, OutBlockOf(nOut, RENDER_QUANTUM_FRAMES))
                      ELSE [w |-> pu.w, k |-> pu.o.k,
                            channels |-> OutBlockOf(nOut, RENDER_QUANTUM_FRAMES),
                            toPull |-> 0, read |-> NoSamples, ret |-> "channels"]} :
            /\ p' = a.p
            /\ k' = pl.k
            /\ w' = pl.w
            /\ hist' = [h0 EXCEPT
                 !.overrun = @ \/ pu.o.lost,
                 !.owed = IF api /\ nIn > 0
                          THEN Owed(ratio, @, RENDER_QUANTUM_FRAMES, emit)
                          ELSE @,
                 !.cycles = @ + 1,
                 !.steady = @ /\ (api => (nIn > 0 /\ nOut > 0))]
            /\ last' = [LastOf("process", ratio, RENDER_QUANTUM_FRAMES, pu.o)
                 EXCEPT !.err = IF a.err # "none" THEN a.err ELSE pu.o.err,
                        !.created = a.created,
                        !.channelCount = numChannels,
                        !.nIn = nIn, !.nOut = nOut,
                        !.pushed = api /\ nIn > 0,
                        !.pulled = api /\ nOut > 0,
                        !.fill = IF api THEN getSamplesAvailable(pu.o.k) ELSE 0,
                        !.toPull = pl.toPull,
                        !.block = OutBlockOf(nOut, RENDER_QUANTUM_FRAMES),
                        !.out = pl.channels, !.read = pl.read,
                        !.ret = IF p.running THEN "true" ELSE "false",
                        !.replaced = p._api /\ a.created,
                        !.delay = IF a.created THEN a.k.start_delay_samples_ ELSE 0]

\* process(inputs, outputs) of a host that renders with NumCh channels
Render(limit) == RenderWith(limit, {NumCh})

\* a render callback of a run of the processor with its control messages
Callback == Render(MaxCallbacks)

ProcessorInit ==
  /\ k = CycleKernel(0)
  /\ w = Wrapper
  /\ hist = NoHist
  /\ last = NoLast
  /\ p = Processor

ProcessorNext ==
  \/ RuntimeInitialized
  \/ TempoMessage
  \/ PitchMessage
  \/ QualityMessage
  \/ CloseMessage
  \/ Callback

ProcessorSpec == ProcessorInit /\ [][ProcessorNext]_vars

\* a render callback of a streaming run
Process == Render(MaxCycles)

\* streaming at a fixed ratio: the module is initialized and a 'tempo'
\* message has set the playback speed before the first render callback
\* creates the session
CycleInit ==
  /\ k = CycleKernel(0)
  /\ w = Wrapper
  /\ hist = NoHist
  /\ last = NoLast
  /\ \E tempo \in Tempos :
       p = [Processor EXCEPT !._module = TRUE, !.runtime = TRUE, !.tempo = tempo]

CycleNext == Process

CycleSpec == CycleInit /\ [][CycleNext]_vars

\* --------------------------------------------------------------- channels
\* The processor with a host whose channel count changes between render
\* callbacks and with 'quality' messages; inputs[0] and outputs[0] of one
\* callback have the same channel count where they are not empty.

\* the channel counts the host renders with
RenderCounts == {1, NumCh}

ChannelCallback == RenderWith(MaxCallbacks, RenderCounts)

ChannelNext ==
  \/ QualityMessage
  \/ ChannelCallback

\* the module is initialized before the first message or render callback
ChannelInit ==
  /\ k = CycleKernel(0)
  /\ w = Wrapper
  /\ hist = NoHist
  /\ last = NoLast
  /\ p = [Processor EXCEPT !._module = TRUE, !.runtime = TRUE]

ChannelSpec == ChannelInit /\ [][ChannelNext]_vars

\* The session driven through all three data paths of the wrapper: push,
\* pushSlice and pull.

\* pushSlice(channels, start, end) with a block of RENDER_QUANTUM_FRAMES
\* samples per channel; an end beyond the block is among the arguments
PushSlice ==
  \E start \in 0..RENDER_QUANTUM_FRAMES :
  \E end \in start..(RENDER_QUANTUM_FRAMES + 1) :
  \E emit \in Emits(k) :
    LET r == WrapperPushSlice(w, k, InBlock, start, end, emit)
    IN /\ (r.o.err # "none" => emit = 0)
       /\ k' = r.o.k
       /\ w' = r.w
       /\ hist' = HistOf(r.o)
       /\ last' = [LastOf("pushSlice", One, end - start, r.o) EXCEPT !.start = start]
       /\ UNCHANGED p

SliceNext ==
  \/ Push
  \/ PushSlice
  \/ Pull

SliceSpec == Init /\ [][SliceNext]_vars

\* The processor with hosts that also send payloads the kernel rejects: a
\* negative tempo (its inverse is negative), a pitch of 0 or below.  (A tempo
\* of 0 is not among them: its inverse is +Infinity, which the kernel's test
\* tempo <= 0 lets pass.)
BadTempos == {MinusOne}

BadPitches == {Zero, MinusOne}

\* port.onmessage, event 'tempo', with such a payload: the exception of the
\* kernel's setter leaves the handler
BadTempoMessage == p.onmessage /\ \E payload \in BadTempos : TempoHandler(payload)

\* port.onmessage, event 'pitch', with such a payload
BadPitchMessage == p.onmessage /\ \E payload \in BadPitches : PitchHandler(payload)

RejectNext ==
  \/ RuntimeInitialized
  \/ TempoMessage
  \/ PitchMessage
  \/ QualityMessage
  \/ Callback
  \/ BadTempoMessage
  \/ BadPitchMessage

RejectSpec == ProcessorInit /\ [][RejectNext]_vars

\* The session driven by an engine that may make more samples available for
\* one block than a scratch array holds.  The kernel passes any ratio above 0
\* on to the engine, and the output of one block grows with the time ratio.

\* the capacity of a scratch array: new float[buffer_size]
ScratchSize == BufferSize

\* most samples the engine makes available for one process() call
MaxBurst == ScratchSize + 1

\* the emit counts the engine may choose for the next process() call
BurstEmits(kn) ==
  {e \in 0..MaxBurst : Produced(kn) + e <= MaxProduced + MaxBurst}

\* the ring buffers with their unread samples overwritten
Smashed(kn) ==
  [kn EXCEPT !.output_buffer_ =
     [c \in Channels |->
        [kn.output_buffer_[c] EXCEPT
           !.data = [i \in 1..Len(kn.output_buffer_[c].data) |-> UNINIT]]]]

\* the session after a fetch with these retrieve sizes has left it as kn: a
\* retrieve of more than ScratchSize samples writes beyond the scratch
\* arrays, into memory that is unused or that holds the ring buffers' samples
ScratchOutcomes(kn, requests) ==
  IF \E i \in DOMAIN requests : requests[i] > ScratchSize
  THEN {kn, Smashed(kn)}
  ELSE {kn}

\* push(channels, numSamples) with such an engine
BurstPush ==
  \E emit \in BurstEmits(k) :
    LET r == WrapperPush(w, k, InBlock, RENDER_QUANTUM_FRAMES, emit)
        requests == RetrieveRequests(
                      [k EXCEPT !.stretcher_ = StretcherProcess(k.stretcher_, emit)])
    IN /\ k' \in ScratchOutcomes(r.o.k, requests)
       /\ w' = r.w
       /\ hist' = HistOf(r.o)
       /\ last' = [LastOf("push", One, RENDER_QUANTUM_FRAMES, r.o)
                     EXCEPT !.requests = requests]
       /\ UNCHANGED p

BurstNext ==
  \/ BurstPush
  \/ Pull
  \/ SetTempo

BurstSpec == Init /\ [][BurstNext]_vars

\* ------------------------------------------------------------------ steps
\* The processor's handlers step by step: a render callback is getApi, push,
\* pull; a 'tempo' or 'pitch' message stores its payload and, with a session
\* and a new value, runs the kernel's setter: fetch, reset, re-apply the
\* block size, apply the ratio, updateRatio.

\* a host that delivers a message or a render callback at any time
Dispatchable_Always(pr) == TRUE

\* the rendering thread takes up a message or a render callback when the
\* handler it was running has returned: both handlers are synchronous
\* functions and have no point where they yield
Dispatchable(pr) == pr.task = "idle"

\* the thread is at step pc of task
At_(task, pc) == p.task = task /\ p.pc = pc

\* after this step comes step pc of task
Goto(pr, task, pc) == [pr EXCEPT !.task = task, !.pc = pc]

Return(pr) == Goto(pr, "idle", "none")

\* process(inputs, outputs), both with NumCh channels: getApi(numChannels)
StepGetApi ==
  /\ Dispatchable(p)
  /\ hist.cycles < MaxCallbacks
  /\ \E d0 \in 0..MaxDelay : \E d \in TempoDelays(p) :
       LET a == getApi(p, k, w, NumCh, CycleKernel(d0), d)
       IN /\ (a.created \/ d0 = 0)
          /\ ((a.created /\ a.k.stretcher_.timeRatio # One) \/ d = 0)
          /\ p' = IF a.p._api THEN Goto(a.p, "process", "push") ELSE Return(a.p)
          /\ k' = a.k
          /\ w' = a.w
          /\ hist' = [(IF a.created THEN [NoHist EXCEPT !.cycles = hist.cycles]
                                    ELSE hist) EXCEPT !.cycles = @ + 1]
          /\ last' = [NoLast EXCEPT !.name = "getApi", !.created = a.created]

\* api.push(inputs[0], inputLength)
StepPush ==
  /\ At_("process", "push")
  /\ \E emit \in CycleEmits(k.stretcher_.timeRatio, hist.owed, RENDER_QUANTUM_FRAMES) :
       LET r == WrapperPush(w, k, InBlock, RENDER_QUANTUM_FRAMES, emit)
       IN /\ k' = r.o.k
          /\ w' = r.w
          /\ hist' = [hist EXCEPT
                        !.overrun = @ \/ r.o.lost,
                        !.owed = Owed(k.stretcher_.timeRatio, @,
                                      RENDER_QUANTUM_FRAMES, emit)]
          /\ last' = LastOf("push", One, RENDER_QUANTUM_FRAMES, r.o)
          /\ p' = Goto(p, "process", "pull")

\* api.pull(outputs[0]); return this.running
StepPull ==
  /\ At_("process", "pull")
  /\ LET r == WrapperPull(w, k, OutBlock(RENDER_QUANTUM_FRAMES))
     IN /\ k' = r.k
        /\ w' = r.w
        /\ last' = [NoLast EXCEPT !.name = "pull", !.n = RENDER_QUANTUM_FRAMES,
                      !.fill = getSamplesAvailable(k), !.toPull = r.toPull,
                      !.block = OutBlock(RENDER_QUANTUM_FRAMES),
                      !.out = r.channels, !.read = r.read, !.ret = r.ret]
  /\ p' = Return(p)
  /\ UNCHANGED hist

\* the handler of a message goes on into the kernel's setter if there is a
\* session and the value passes the setter's two tests
EntersSetter(pr, current, value) ==
  pr._api /\ ~NonPositive(value) /\ Differs(current, value)

\* port.onmessage, event 'tempo': this.tempo = payload, and with a session
\* the timeRatio setter up to the kernel's comparison
StepTempo ==
  /\ Dispatchable(p)
  /\ p.onmessage
  /\ \E payload \in Tempos :
       LET enters == EntersSetter(p, k.stretcher_.timeRatio, Inverse(payload))
       IN /\ enters => hist.resets < MaxResets
          /\ p' = IF enters
                  THEN Goto([p EXCEPT !.tempo = payload], "tempo", "fetch")
                  ELSE Return([p EXCEPT !.tempo = payload])
          /\ w' = IF p._api THEN [w EXCEPT !._tempo = payload] ELSE w
          /\ last' = [NoLast EXCEPT !.name = "tempo", !.ratio = payload]
  /\ UNCHANGED <<k, hist>>

\* port.onmessage, event 'pitch'
StepPitch ==
  /\ Dispatchable(p)
  /\ p.onmessage
  /\ \E payload \in Pitches :
       LET enters == EntersSetter(p, k.stretcher_.pitchScale, payload)
       IN /\ enters => hist.resets < MaxResets
          /\ p' = IF enters
                  THEN Goto([p EXCEPT !.pitch = payload], "pitch", "fetch")
                  ELSE Return([p EXCEPT !.pitch = payload])
          /\ w' = IF p._api THEN [w EXCEPT !._pitch = payload] ELSE w
          /\ last' = [NoLast EXCEPT !.name = "pitch", !.ratio = payload]
  /\ UNCHANGED <<k, hist>>

SetterTasks == {"tempo", "pitch"}

\* the setter: fetchProcessed()
StepFetch ==
  /\ p.task \in SetterTasks /\ p.pc = "fetch"
  /\ LET f == fetchProcessed(k)
     IN /\ k' = f.k
        /\ hist' = [hist EXCEPT !.overrun = @ \/ f.lost]
        /\ last' = LastOf("fetch", One, 0, f)
  /\ p' = Goto(p, p.task, "reset")
  /\ UNCHANGED w

\* the setter: stretcher_->reset()
StepReset ==
  /\ p.task \in SetterTasks /\ p.pc = "reset"
  /\ k' = [k EXCEPT !.stretcher_ = StretcherReset(@)]
  /\ hist' = [hist EXCEPT !.resets = @ + 1, !.owed = 0, !.steady = FALSE]
  /\ last' = [NoLast EXCEPT !.name = "reset", !.calls = <<"reset">>]
  /\ p' = Goto(p, p.task, "setMaxProcessSize")
  /\ UNCHANGED w

\* the setter: if (max_process_size_ > 0) setMaxProcessSize(max_process_size_)
StepReapply ==
  /\ p.task \in SetterTasks /\ p.pc = "setMaxProcessSize"
  /\ LET r == ReapplyBlockSize(k)
     IN /\ k' = r.k
        /\ last' = [NoLast EXCEPT !.name = "setMaxProcessSize", !.calls = r.calls]
  /\ p' = Goto(p, p.task, "apply")
  /\ UNCHANGED <<w, hist>>

\* the setter: setTimeRatio(tempo) or setPitchScale(pitch)
StepApply ==
  /\ p.task \in SetterTasks /\ p.pc = "apply"
  /\ k' = IF p.task = "tempo"
          THEN [k EXCEPT !.stretcher_.timeRatio = Inverse(p.tempo)]
          ELSE [k EXCEPT !.stretcher_.pitchScale = p.pitch]
  /\ last' = [NoLast EXCEPT !.name = "apply",
                !.ratio = IF p.task = "tempo" THEN Inverse(p.tempo) ELSE p.pitch]
  /\ p' = Goto(p, p.task, "updateRatio")
  /\ UNCHANGED <<w, hist>>

\* the setter: updateRatio(), after which the handler returns
StepUpdateRatio ==
  /\ p.task \in SetterTasks /\ p.pc = "updateRatio"
  /\ \E d \in 0..MaxDelay :
       /\ k' = updateRatio(k, d)
       /\ last' = [NoLast EXCEPT !.name = "updateRatio", !.delay = d]
  /\ p' = Return(p)
  /\ UNCHANGED <<w, hist>>

\* the module is initialized before the first message or render callback
StepInit ==
  /\ k = CycleKernel(0)
  /\ w = Wrapper
  /\ hist = NoHist
  /\ last = NoLast
  /\ p = [Processor EXCEPT !._module = TRUE, !.runtime = TRUE]

StepNext ==
  \/ StepGetApi
  \/ StepPush
  \/ StepPull
  \/ StepTempo
  \/ StepPitch
  \/ StepFetch
  \/ StepReset
  \/ StepReapply
  \/ StepApply
  \/ StepUpdateRatio

StepSpec == StepInit /\ [][StepNext]_vars

\* ------------------------------------------------------------------ flow
\* A run without end: render callbacks and parameter messages for as long as
\* the host keeps rendering.  The engine emits what it likes for each block.
\* Such a run does not tell the samples of a channel apart: each is written
\* down as the channel's sample number 1, so that the run can go on.

\* the sample v without its number
Unnumbered(v) == IF v = UNINIT THEN UNINIT ELSE Sample(v % 10, 1)

\* the kernel with the samples in its ring buffers unnumbered
UnnumberedKernel(kn) ==
  [kn EXCEPT !.stretcher_.next = 1,
             !.output_buffer_ =
               [c \in DOMAIN @ |->
                  [@[c] EXCEPT !.data = [i \in DOMAIN @ |-> Unnumbered(@[i])]]]]

\* the wrapper with the samples in its output heap array unnumbered
UnnumberedWrapper(wr) ==
  [wr EXCEPT !._outputArray = [a \in DOMAIN @ |-> Unnumbered(@[a])]]

\* process(inputs, outputs) with nIn input and nOut output channels, the
\* engine emitting emit samples for the block pushed
FlowCallback(nIn, nOut, emit) ==
  \E d0 \in 0..MaxDelay : \E d \in TempoDelays(p) :
  \E numChannels \in {IF nIn # 0 THEN nIn ELSE nOut} :
  \E a \in {IF numChannels > 0
             THEN getApi(p, k, w, numChannels, CycleKernelOf(numChannels, d0), d)
             ELSE [p |-> p, k |-> k, w |-> w, created |-> FALSE, err |-> "none"]} :
  \E api \in {numChannels > 0 /\ a.p._api /\ a.err = "none"} :
  \E ratio \in {a.k.stretcher_.timeRatio} :
    /\ (a.created \/ d0 = 0)
    /\ ((a.created /\ ratio # One) \/ d = 0)
    /\ (api /\ nIn > 0) \/ emit = 0
    /\ \E pu \in {IF api /\ nIn > 0
                   THEN WrapperPush(a.w, a.k, InBlockOf(nIn), RENDER_QUANTUM_FRAMES, emit)
                   ELSE [w |-> a.w, o |-> Untouched(a.k)]} :
       \E pl \in {IF api /\ nOut > 0
                   THEN WrapperPull(pu.w, pu.o.k, OutBlockOf(nOut, RENDER_QUANTUM_FRAMES))
                   ELSE [w |-> pu.w, k |-> pu.o.k,
                         channels |-> OutBlockOf(nOut, RENDER_QUANTUM_FRAMES),
                         toPull |-> 0, read |-> NoSamples, ret |-> "channels"]} :
         /\ p' = a.p
         /\ k' = UnnumberedKernel(pl.k)
         /\ w' = UnnumberedWrapper(pl.w)
         /\ hist' = [(IF a.created THEN [NoHist EXCEPT !.resets = hist.resets]
                                   ELSE hist)
                       EXCEPT !.overrun = @ \/ pu.o.lost]
         /\ last' = [NoLast EXCEPT
                     !.name = "process", !.ratio = ratio,
                     !.n = RENDER_QUANTUM_FRAMES,
                     !.err = IF a.err # "none" THEN a.err ELSE pu.o.err,
                     !.calls = pu.o.calls,
                     !.created = a.created,
                     !.channelCount = numChannels,
                     !.nIn = nIn, !.nOut = nOut,
                     !.pushed = api /\ nIn > 0,
                     !.pulled = api /\ nOut > 0,
                     !.fill = IF api THEN getSamplesAvailable(pu.o.k) ELSE 0,
                     !.toPull = pl.toPull,
                     !.delay = IF a.created THEN a.k.start_delay_samples_ ELSE 0]

\* any render callback
FlowProcess ==
  \E nIn \in {0, NumCh} : \E nOut \in {0, NumCh} : \E emit \in 0..MaxEmit :
    FlowCallback(nIn, nOut, emit)

\* a render callback with input and output for whose block the engine emits
\* at least one sample
FlowEmitting ==
  \E emit \in 1..MaxEmit : FlowCallback(NumCh, NumCh, emit)

\* the payloads of the 'tempo' messages of such a run
FlowTempos == {One, Two}

FlowTempo == p.onmessage /\ \E payload \in FlowTempos : TempoHandler(payload)

FlowNext ==
  \/ FlowProcess
  \/ FlowTempo

\* The host renders on and on, and again and again the engine emits for the
\* block a callback pushed; a callback pulls whenever the host hands it
\* output channels.  FlowEmitting is possible in every state and changes it,
\* so that WF_vars(FlowEmitting) says that such callbacks never cease.
FlowFairness == []<><<FlowEmitting>>_vars

FlowSpec == ChannelInit /\ [][FlowNext]_vars /\ FlowFairness

Setters == {"setTempo", "setPitch", "setFormantScale"}

\* the engine parameter a setter compares its argument with
CurrentOf(kn, name) ==
  IF name = "setTempo" THEN kn.stretcher_.timeRatio
  ELSE IF name = "setPitch" THEN kn.stretcher_.pitchScale
  ELSE kn.stretcher_.formantScale

\* the engine call with which a setter applies its argument
ApplyCall(name) ==
  IF name = "setTempo" THEN "timeRatio"
  ELSE IF name = "setPitch" THEN "pitchScale"
  ELSE "formantScale"

\* per channel, the samples the operation recorded in l handed to its caller
Delivered(l) ==
  [c \in Channels |->
     IF l.name = "pull" THEN SubSeq(l.out[c], 1, l.toPull)
     ELSE IF l.name = "kernel.pull" THEN l.read[c]
     ELSE << >>]

Unread(kn, c) == kn.output_buffer_[c].data

\* C1: as long as nothing was lost to a full ring buffer, no sample is
\* dropped, duplicated or reordered.  Stated per operation, which is
\* equivalent to the statement about the whole run by cancelling the common
\* prefix: on every channel, what the operation delivered followed by what the
\* ring buffer holds after it equals what the ring buffer held before it
\* followed by what the operation retrieved after start-delay discarding.
C1_NoSampleLost ==
  [][~hist'.overrun =>
       \A c \in Channels :
         Delivered(last')[c] \o Unread(k', c) = Unread(k, c) \o last'.kept[c]]_vars

\* C2: after every completed operation all channel ring buffers hold the same
\* number of samples, overruns and underruns included.
C2_EqualFill ==
  \A c \in Channels :
    /\ GetReadSpace(k.output_buffer_[c]) = GetReadSpace(k.output_buffer_[1])
    /\ Len(Unread(k, c)) = Len(Unread(k, 1))

\* a push that lost samples to full ring buffers, after which every ring
\* buffer is full
C2_Witness ==
  /\ last.name = "push" /\ last.lost
  /\ \A c \in Channels : Len(Unread(k, c)) = BufferSize

C4_PullRemovesOldest ==
  [][last'.name \in {"pull", "kernel.pull"} =>
       \A c \in Channels :
         LET F == Len(Unread(k, c))
             m == IF F <= last'.n THEN F ELSE last'.n
         IN /\ last'.read[c] = SubSeq(Unread(k, c), 1, m)
            /\ Unread(k', c) = SubSeq(Unread(k, c), m + 1, F)]_vars

\* a pull that asked for fewer samples than the ring buffers held and left
\* the rest in place
C4_Witness ==
  /\ last.name = "pull" /\ last.fill > last.n /\ last.toPull = last.n
  /\ \A c \in Channels : Len(Unread(k, c)) = last.fill - last.n
  /\ Len(Unread(k, 1)) > 0

\* C5: the positions toPull..requested-1 of every output channel hold after
\* a pull what they held before it.
C5_NoFiller ==
  last.name = "pull" =>
    \A c \in Channels : \A i \in (last.toPull + 1)..last.n :
      last.out[c][i] = last.block[c][i]

\* a pull that delivered some samples, but fewer than the block holds
C5_Witness ==
  last.name = "pull" /\ last.toPull > 0 /\ last.toPull < last.n

C7_PushRejectsOtherSize ==
  [][(last'.name = "push" /\ k.max_process_size_ > 0
        /\ last'.n # k.max_process_size_) =>
       (last'.err = "contract_violation" /\ last'.calls = << >> /\ k' = k)]_vars

\* C8: a setter called with the engine's current value resets nothing,
\* fetches nothing and changes nothing; two calls in a row with the same
\* value reset the engine at most once.
C8_SameValueNoOp ==
  [][last'.name \in Setters =>
       /\ last'.ratio = CurrentOf(k, last'.name) =>
            /\ k' = k /\ w' = w /\ hist' = hist
            /\ last'.calls = << >> /\ last'.err = "none"
       /\ (last.name = last'.name /\ last.ratio = last'.ratio) =>
            Count(last.calls, "reset") + Count(last'.calls, "reset") <= 1]_vars

\* the second of two calls setTempo(2): the first reset the engine, the
\* second did nothing
C8_Witness ==
  /\ last.name = "setTempo" /\ last.ratio = Two /\ last.calls = << >>
  /\ k.stretcher_.timeRatio = Two /\ hist.resets = 1

\* the position of the one call name in calls
At(calls, name) == CHOOSE i \in DOMAIN calls : calls[i] = name

\* C9: a setter called with a positive value that differs from the current
\* one resets the engine exactly once; if a block size is stored (> 0) it
\* re-applies it exactly once, after the reset and before the new ratio; and
\* after the call the engine's block size is the stored one.
C9_OneResetOneReapply ==
  [][(last'.name \in Setters /\ last'.ratio[1] > 0
        /\ last'.ratio # CurrentOf(k, last'.name)) =>
       LET calls == last'.calls
       IN /\ Count(calls, "reset") = 1
          /\ hist'.resets = hist.resets + 1
          /\ Count(calls, ApplyCall(last'.name)) = 1
          /\ CurrentOf(k', last'.name) = last'.ratio
          /\ k.max_process_size_ > 0 =>
               /\ Count(calls, "setMaxProcessSize") = 1
               /\ At(calls, "reset") < At(calls, "setMaxProcessSize")
               /\ At(calls, "setMaxProcessSize") < At(calls, ApplyCall(last'.name))
          /\ k.max_process_size_ = 0 => Count(calls, "setMaxProcessSize") = 0
          /\ k'.max_process_size_ = k.max_process_size_
          /\ k'.stretcher_.maxProcessSize = k'.max_process_size_]_vars

\* setPitch(2) with a block size stored: one reset, one re-application
C9_Witness ==
  /\ last.name = "setPitch" /\ last.ratio = Two
  /\ Count(last.calls, "reset") = 1 /\ Count(last.calls, "setMaxProcessSize") = 1
  /\ k.max_process_size_ > 0 /\ k.stretcher_.maxProcessSize = k.max_process_size_

\* C10: a setter called with a value <= 0 throws and changes nothing.
C10_NonPositiveRejected ==
  [][(last'.name \in Setters /\ last'.ratio[1] <= 0) =>
       /\ last'.err = "range_error" /\ last'.calls = << >>
       /\ k' = k /\ w' = w /\ hist' = hist]_vars

\* setFormantScale(-1) was rejected with samples waiting in the ring buffers
C10_Witness ==
  /\ last.name = "setFormantScale" /\ last.ratio = MinusOne
  /\ last.err = "range_error" /\ Len(Unread(k, 1)) > 0

\* C11 as stated: constructing a session with sampleRate > 0 and
\* channelCount > 0 succeeds and yields a new session; with sampleRate <= 0 or
\* channelCount <= 0 it fails with a range error, allocates neither engine
\* nor ring buffers and leaves the caller without a new session.
C11_ConstructChecksArguments ==
  [][last'.name = "construct" =>
       IF last'.sampleRate > 0 /\ last'.channelCount > 0
       THEN /\ last'.err = "none" /\ last'.created
            /\ \E d \in 0..MaxDelay : k' = WrapperKernel(d)
            /\ w' = Wrapper /\ hist' = NoHist
       ELSE /\ last'.err = "range_error" /\ ~last'.created
            /\ k' = k /\ w' = w /\ hist' = hist]_vars

\* what a session's ring buffers satisfy between operations: equal fills,
\* fills within the capacity, cursors that agree with the content
SessionOK(kn) ==
  \A c \in Channels :
    LET rb == kn.output_buffer_[c]
    IN /\ GetReadSpace(rb) = GetReadSpace(kn.output_buffer_[1])
       /\ GetReadSpace(rb) = Len(rb.data)
       /\ Len(rb.data) <= rb.size - 1
       /\ GetWriteSpace(rb) = rb.size - 1 - Len(rb.data)
       /\ kn.start_delay_samples_ >= 0

\* C12: a push whose fetch found too little room in the ring buffers and a
\* pull that found fewer samples than requested (zero included) return
\* without an error, and the session they leave, on which the following calls
\* operate, satisfies its invariants; those following calls return without
\* an error as well.
C12_OverrunUnderrunNotErrors ==
  [][/\ (last'.name = "push" /\ (last'.flagged \/ last'.lost)) =>
          (last'.err = "none" /\ SessionOK(k'))
     /\ (last'.name \in {"pull", "kernel.pull"} /\ last'.fill < last'.n) =>
          (last'.err = "none" /\ SessionOK(k'))
     /\ (hist.overrun /\ last'.name \in {"push", "pull", "kernel.pull"}) =>
          (last'.err = "none" /\ SessionOK(k'))]_vars

\* an underrun on a session that lost samples to an overrun before: the pull
\* found fewer samples than the block holds and returned
C12_Witness ==
  /\ last.name = "pull" /\ last.fill < last.n /\ last.err = "none"
  /\ hist.overrun

\* C16: a pull that finds zero samples available reads from no ring buffer
\* and delivers nothing: session, heap and output block stay as they were;
\* and whenever a pull reads or delivers samples, the session reported
\* samples available.
C16_NoReadWhileEmpty ==
  [][last'.name \in {"pull", "kernel.pull"} =>
       /\ last'.fill = 0 =>
            /\ k' = k /\ w' = w
            /\ last'.read = NoSamples /\ last'.toPull = 0
            /\ last'.out = last'.block
       /\ (last'.toPull > 0 \/ last'.read # NoSamples \/ k' # k) => last'.fill > 0]_vars

\* a pull during warm-up: the engine has emitted samples, all of them were
\* discarded as start delay, and the pull found nothing
C16_Witness ==
  /\ last.name = "pull" /\ last.fill = 0 /\ last.out = last.block
  /\ k.stretcher_.next > 1 /\ k.start_delay_samples_ > 0

\* the samples an operation retrieved from the engine
Retrieved(kn, kn2) == kn2.stretcher_.next - kn.stretcher_.next

\* C18: when push returns the engine has nothing left to retrieve, whether
\* the samples of this block were discarded as start delay, written to the
\* ring buffers or dropped on overrun.
C18_PushDrainsEngine ==
  [][last'.name = "push" =>
       /\ k'.stretcher_.avail = 0
       /\ Retrieved(k, k') >= k.stretcher_.avail]_vars

\* a push after which the engine is empty although the ring buffers had no
\* room for all it emitted
C18_Witness ==
  /\ last.name = "push" /\ last.lost /\ last.flagged
  /\ k.stretcher_.avail = 0

\* C19: a fetch that retrieves A samples with D samples of start delay left
\* discards the first min(A, D) of them and passes on the rest, in order:
\* nothing of the discarded part reaches a ring buffer, and the start delay
\* left is D - min(A, D).  The start delay never goes below 0 and grows only
\* in a call that resets the engine or constructs a new session.
C19_StartDelayDiscardedOnce ==
  [][/\ k'.start_delay_samples_ >= 0
     /\ (Count(last'.calls, "reset") = 0 /\ last'.name # "construct") =>
          k'.start_delay_samples_ <= k.start_delay_samples_
     /\ last'.name = "push" =>
          LET A == Retrieved(k, k')
              D == k.start_delay_samples_
              disc == IF A <= D THEN A ELSE D
          IN /\ k'.start_delay_samples_ = D - disc
             /\ \A c \in Channels :
                  /\ last'.kept[c] =
                       [i \in 1..(A - disc) |-> Sample(c, k.stretcher_.next + disc + i - 1)]
                  /\ \E m \in 0..(A - disc) :
                       Unread(k', c) = Unread(k, c) \o SubSeq(last'.kept[c], 1, m)
                  /\ ~last'.lost =>
                       Unread(k', c) = Unread(k, c) \o last'.kept[c]]_vars

\* a push that finished the discarding of a start delay of MaxDelay samples
\* and passed the first sample after it on to the ring buffers
C19_Witness ==
  /\ last.name = "push" /\ k.start_delay_samples_ = 0
  /\ Len(last.kept[1]) > 0
  /\ last.kept[1][1] = Sample(1, MaxDelay + 1)
  /\ Unread(k, 1) = last.kept[1]

\* C20 as stated: a fetch that finds no samples, or no more samples than
\* start delay is left, leaves the ring buffers alone and flags no overrun.
C20_ConsumedFetchTouchesNothing ==
  [][(last'.name \in Setters \cup {"push"} /\ last'.err = "none"
        /\ Retrieved(k, k') <= k.start_delay_samples_) =>
       /\ k'.output_buffer_ = k.output_buffer_
       /\ ~last'.flagged /\ ~last'.lost]_vars

\* a session streams steadily: it exists, every render callback since its
\* creation pushed a block and pulled a block, and no parameter changed
Steady == p._api /\ hist.steady

\* C13 as stated: with a ring buffer capacity of at least the largest output
\* of one block plus one block of input, pushing same-size blocks at a fixed
\* ratio and pulling a block after each push never loses a sample to a full
\* ring buffer, for every ratio.
C13_PacedCyclesNeverOverrun ==
  (Steady /\ CycleBufferSize >= MaxEmit + RENDER_QUANTUM_FRAMES
     /\ k.stretcher_.timeRatio \in CycleRatios) =>
    (~hist.overrun /\ ~last.lost)

\* C14: at playback speed 1.25 the engine runs at time ratio 0.8, and in a
\* steady run the ring buffers then hold no more than the engine's jitter:
\* the fill plus the output the engine still holds back is at most MaxHeld
\* samples after every render callback, however many there were; no sample
\* is lost.
C14_FillStaysSmall ==
  (Steady /\ p.tempo = <<5, 4>>) =>
    /\ k.stretcher_.timeRatio = <<4, 5>>
    /\ \A c \in Channels :
         GetReadSpace(k.output_buffer_[c]) * 5 + hist.owed <= MaxHeld * 5
    /\ ~hist.overrun

\* the last render callback of a steady run at ratio 0.8: the pull found
\* less than a block and drained it
C14_Witness ==
  /\ Steady /\ p.tempo = <<5, 4>> /\ hist.cycles = MaxCycles
  /\ last.name = "process" /\ last.pulled
  /\ last.toPull > 0 /\ last.toPull < last.n
  /\ k.start_delay_samples_ = 0

\* C15 as stated: at time ratio 1.25, with one pull of a block per push, the
\* ring buffers always have room for what the engine emits (the fill settles
\* below the capacity), and no render callback ends in an error.
C15_FillBelowCapacity ==
  [][(last'.name = "process" /\ p'._api /\ hist'.steady
        /\ k'.stretcher_.timeRatio = <<5, 4>>) =>
       /\ last'.err = "none"
       /\ \A c \in Channels :
            Len(Unread(k, c)) + Len(last'.kept[c]) <= CycleBufferSize]_vars

\* C17: every render callback that has a session and a non-empty output
\* block pulls, whatever is available: it drains min(available, block
\* length) samples from every ring buffer, also when less than a block is
\* available.
C17_PullsEveryCycle ==
  [][(last'.name = "process" /\ p'._api /\ last'.nOut > 0
        /\ last'.err = "none") =>
       LET m == IF last'.fill <= last'.n THEN last'.fill ELSE last'.n
       IN /\ last'.pulled
          /\ last'.toPull = m
          /\ \A c \in Channels :
               /\ Len(last'.read[c]) = m
               /\ Len(Unread(k', c)) = last'.fill - m]_vars

\* a render callback that found less than a block and pulled it
C17_Witness ==
  /\ last.name = "process" /\ last.pushed /\ last.pulled
  /\ last.fill > 0 /\ last.fill < last.n /\ last.toPull = last.fill
  /\ \A c \in Channels : Len(Unread(k, c)) = 0

\* the operations that run fetchProcessed
Fetching == Setters \cup {"push"}

\* C21 as stated: a fetch that has samples to write flags an overrun exactly
\* when some channel's ring buffer has less free space than the number of
\* samples about to be written; it does not flag when they all fit, the
\* case of as many samples as free cells included.
C21_FlagsExactlyWhenDropping ==
  [][(last'.name \in Fetching /\ Len(last'.kept[1]) > 0) =>
       (last'.flagged <=>
          \E c \in Channels :
            GetWriteSpace(k.output_buffer_[c]) < Len(last'.kept[c]))]_vars

\* C22: on overrun the newest samples are dropped.  The samples a ring
\* buffer held before the fetch are there after it, values and order
\* unchanged, followed by as many of the retrieved samples as there was room
\* for, in order; only the rest of the retrieved samples is lost.
C22_OverrunDropsNewest ==
  [][last'.name \in Fetching =>
       \A c \in Channels :
         LET space == GetWriteSpace(k.output_buffer_[c])
             fit == IF Len(last'.kept[c]) <= space THEN Len(last'.kept[c]) ELSE space
         IN /\ Unread(k', c) = Unread(k, c) \o SubSeq(last'.kept[c], 1, fit)
            /\ last'.lost => (fit = space /\ fit < Len(last'.kept[c]))]_vars

\* a push that found room for a part of what the engine emitted: the ring
\* buffers are full, an older sample in front, the first of the new samples
\* behind it, the last of them missing
C22_Witness ==
  /\ last.name = "push" /\ last.lost
  /\ \A c \in Channels :
       /\ Len(Unread(k, c)) = BufferSize
       /\ Unread(k, c)[1] < last.kept[c][1]
       /\ Unread(k, c)[BufferSize] \in {last.kept[c][i] : i \in 1..(Len(last.kept[c]) - 1)}

C24_StartDelayRequeried ==
  [][(last'.name \in Setters /\ Count(last'.calls, "reset") > 0) =>
       /\ k'.start_delay_samples_ = last'.delay
       /\ Count(last'.calls, "getStartDelay") = 1
       /\ At(last'.calls, "reset") < At(last'.calls, ApplyCall(last'.name))
       /\ At(last'.calls, ApplyCall(last'.name)) < At(last'.calls, "getStartDelay")]_vars

\* setTempo(2) on a session that had discarded one sample of a start delay
\* and delivered nothing yet: the new start delay of MaxDelay samples is left
C24_Witness ==
  /\ last.name = "setTempo" /\ last.ratio = Two /\ Count(last.calls, "reset") = 1
  /\ last.delay = MaxDelay /\ k.start_delay_samples_ = MaxDelay
  /\ k.stretcher_.next = 2
  /\ \A c \in Channels : k.output_buffer_[c].writer = 0

\* the control messages that change a parameter
ParameterMessages == {"tempo", "pitch", "quality"}

\* C25 as stated: closed is terminal.  Once a close message has been handled
\* the processor stays closed, every later process call returns false, and no
\* later render callback or control message creates a session, pushes to it,
\* pulls from it or changes a parameter; a parameter change before the close
\* never makes process report not-running.
C25_ClosedIsTerminal ==
  [][/\ ~p.running =>
          /\ ~p'.running
          /\ last'.name \notin ParameterMessages
          /\ p'.pitch = p.pitch /\ p'.tempo = p.tempo
          /\ p'.highQuality = p.highQuality
          /\ last'.name = "process" =>
               /\ last'.ret = "false"
               /\ ~last'.pushed /\ ~last'.pulled /\ ~last'.created
               /\ k' = k /\ w' = w
     /\ (p.running /\ last'.name \in ParameterMessages) => p'.running
     /\ (p.running /\ last'.name = "process") => last'.ret = "true"]_vars

\* C26: no session without the module.  A session exists only once the
\* initialization callback has stored the module handle; a process call
\* that runs before that, or after the callback found the required exports
\* missing, creates no session, pushes and pulls nothing, leaves the output
\* block as it was and returns the running flag; a control message handled
\* then touches no session either.
C26_NoSessionBeforeModule ==
  [][/\ p'._api => (p'._module /\ p'.runtime)
     /\ ~p._module =>
          /\ last'.name \in {"process", "tempo", "pitch", "quality", "close"} =>
               (~p'._api /\ k' = k /\ w' = w /\ last'.calls = << >>)
          /\ last'.name = "process" =>
               /\ ~last'.created /\ ~last'.pushed /\ ~last'.pulled
               /\ last'.out = last'.block
               /\ last'.ret = (IF p.running THEN "true" ELSE "false")
               /\ last'.err = "none"]_vars

\* a render callback with input and output after the initialization callback
\* found the required exports missing: nothing was created, pushed or pulled
C26_Witness ==
  /\ p.runtime /\ ~p._module /\ ~p._api
  /\ last.name = "process" /\ last.nIn > 0 /\ last.nOut > 0
  /\ ~last.pushed /\ ~last.pulled /\ last.out = last.block /\ last.ret = "true"
  /\ hist.cycles = MaxCallbacks

\* C27 as stated: every retrieve call of a fetch, the start-delay discard
\* and the main retrieve, asks for at most as many samples as a scratch array
\* holds, whatever count the engine reports as available and whatever start
\* delay it reports.
C27_RetrieveWithinScratch ==
  \A i \in DOMAIN last.requests : last.requests[i] <= ScratchSize

\* the steps of a render callback and of a setter's reset sequence
RenderSteps == {"getApi", "push", "pull"}

ResetSteps == {"fetch", "reset", "setMaxProcessSize", "apply", "updateRatio"}

C29_EngineMatchesRequests ==
  p._api =>
    /\ k.stretcher_.pitchScale = p.pitch
    /\ k.stretcher_.timeRatio = Inverse(p.tempo)

\* C30 as stated: a 'tempo' or 'pitch' message whose value the kernel
\* rejects changes nothing: the tempo and the pitch the processor and the
\* wrapper have stored are the previous ones and the session is untouched,
\* so that the wrapper keeps reporting the tempo the engine runs at, and
\* a render callback that has to create the session anew succeeds.
C30_RejectedMessageChangesNothing ==
  [][/\ (last'.name \in {"tempo", "pitch"} /\ last'.err = "range_error") =>
          /\ p'.tempo = p.tempo /\ p'.pitch = p.pitch
          /\ w'._tempo = w._tempo /\ w'._pitch = w._pitch
          /\ k' = k
     /\ p'._api => k'.stretcher_.timeRatio = Inverse(w'._tempo)
     /\ last'.name = "process" => last'.err = "none"]_vars

\* per channel, the samples the wrapper stored in the input heap array for
\* the push recorded in l
Stored(l) ==
  [c \in Channels |->
     IF l.name = "pushSlice"
     THEN Slice(InBlock[c], l.start, l.start + l.n)
     ELSE InBlock[c]]

\* C31 as stated: channel data crosses the boundary between wrapper and
\* kernel intact for every sample count n up to a block.  On push and
\* pushSlice the n samples the kernel hands to the engine for channel c are
\* the first n samples the wrapper stored for channel c; on pull the samples
\* the wrapper copies to output channel c are the samples the kernel read
\* from ring buffer c; for every channel, and also when n is less than a
\* block.
C31_ChannelsCrossIntact ==
  [][/\ (last'.name \in {"push", "pushSlice"} /\ last'.err = "none"
          /\ last'.n <= Len(Stored(last')[1])) =>
          \A c \in Channels :
            last'.input[c] = SubSeq(Stored(last')[c], 1, last'.n)
     /\ last'.name = "pull" =>
          \A c \in Channels :
            SubSeq(last'.out[c], 1, last'.toPull) = last'.read[c]]_vars

\* C32: every push and pull of a render callback goes to a session that has
\* the callback's channel count and the quality requested last.  If the
\* session the callback finds has another channel count or quality, a new
\* one replaces it before the push: its ring buffers start empty and its
\* start delay is the full one the new engine reports, so that what the
\* callback delivers, what the ring buffers hold after it and what it
\* discarded as start delay add up to what the new engine emitted; nothing
\* of the old session's output is among it.
C32_SessionMatchesCallback ==
  [][(last'.name = "process" /\ (last'.pushed \/ last'.pulled)) =>
       /\ w'._channelCount = last'.channelCount
       /\ k'.channel_count_ = last'.channelCount
       /\ DOMAIN k'.output_buffer_ = 1..last'.channelCount
       /\ w'._highQuality = p'.highQuality
       /\ last'.replaced =
            (p._api /\ (\/ w._channelCount # last'.channelCount
                        \/ w._highQuality # p.highQuality))
       /\ last'.created =>
            \A c \in 1..last'.channelCount :
              LET got == Len(last'.read[c]) + Len(Unread(k', c))
                         + (last'.delay - k'.start_delay_samples_)
              IN /\ got <= Produced(k')
                 /\ ~last'.lost => got = Produced(k')
                 /\ k'.start_delay_samples_ <= last'.delay]_vars

\* a render callback with one channel found a session of another channel
\* count, replaced it, pushed to the new session and pulled output from it
C32_Witness ==
  /\ last.name = "process" /\ last.replaced /\ last.pushed /\ last.pulled
  /\ last.channelCount = 1 /\ w._channelCount = 1 /\ k.channel_count_ = 1
  /\ Len(last.read[1]) > 0

\* a render callback pulled at least one sample while no start delay is left
Flowing ==
  /\ last.name = "process" /\ last.pulled /\ last.toPull >= 1
  /\ p._api /\ k.start_delay_samples_ = 0

\* C33: in a run in which render callbacks keep pushing and pulling, the
\* engine emits at least one sample for a pushed block again and again, and
\* parameter changes come to an end (there are at most MaxResets of them):
\* whenever start delay is left to discard it eventually reaches 0, and again
\* and again after that a pull delivers at least one sample.  Every 'tempo'
\* message that changes the engine's time ratio leaves the full start delay
\* the engine then reports, whatever was left of the previous one.
C33_OutputEventuallyFlows ==
  /\ (p._api /\ k.start_delay_samples_ > 0) ~> (k.start_delay_samples_ = 0)
  /\ []<>Flowing
  /\ [][(last'.name = "tempo" /\ Count(last'.calls, "reset") > 0) =>
          k'.start_delay_samples_ = last'.delay]_vars

\* after a 'tempo' message had reset the engine, a render callback discarded
\* the rest of the start delay, wrote what the engine emitted beyond it, and
\* pulled from that
C33_Witness ==
  /\ Flowing
  /\ hist.resets > 0
  /\ last.pushed
  /\ Count(last.calls, "retrieve") = 2
  /\ last.fill >= 1

====
